---- MODULE Spec2Model ----
(***************************************************************************)
(* Scheduled-post lifecycle of insta-manager: the HTTP handlers of         *)
(* api/endpoints/scheduled.py, the Celery tasks of workers/publisher.py    *)
(* and the periodic cleanup of workers/maintenance.py, over one database   *)
(* of scheduled_posts rows, one table of published posts and one Celery    *)
(* broker queue.  Time is in seconds.                                      *)
(***************************************************************************)
EXTENDS Integers, FiniteSets, Sequences, TLC

(* ---------------------------------------------------------------- bounds *)
MaxPosts == 1          \* scheduled_posts rows ever inserted
MaxTasks == 4          \* Celery task ids ever issued
MaxTicks == 2          \* clock advances (hours)
MaxTicksRetry == 5     \* clock advances (hours) of SpecRetry
NumWorkers == 2        \* concurrent publisher worker processes
MaxSweepHours == 3     \* clock advances by the hour of SpecSweep, per month
MaxSweepMonths == 1    \* clock advances by thirty days of SpecSweep
MaxTicksStuck == 3     \* clock advances (hours) of SpecStuck

(* ----------------------------------------------------- program constants *)
SingleRetry == 2 - 1
DefaultMaxRetries == 3     \* models/scheduled_post.py: max_retries default
RetryCountdown == 300      \* publisher.py: self.retry(countdown=300)
HourSeconds == 3600
ProcessingCutoff == 7200   \* maintenance.py: timedelta(hours=2)
PastCutoff == 3600         \* maintenance.py: timedelta(hours=1)
OldCutoff == 2592000       \* maintenance.py: timedelta(days=30)

\* models/scheduled_post.py: ScheduleStatus
ScheduleStatus == {"pending", "processing", "published", "failed", "cancelled"}

\* None for integer columns (ids), for timestamps and for text
NoId == 0
NoTime == -1
NoText == "None"

Workers == 1..NumWorkers
\* the rows of instagram_accounts: account 1 is active, account 3 is not
\* (is_active false); any other account_id is unknown
Accounts == {1, 3}
ActiveAccounts == {1}
\* the account_id values of a request: the active account and an unknown one
AccountIds == {1, 2}

\* error texts that reach last_error
ErrAccount == "Account Instagram non attivo"
ErrToken == "Token Instagram non valido"
ErrMedia == "Post deve contenere almeno un media"
ErrApi == "Errore pubblicazione"
\* the same failure when the API answered 429 with a Retry-After hint
ErrRate == "Errore pubblicazione: 429"
\* seconds the API asks the caller to wait (retry_after of RateLimitError)
RetryAfterHint == 60
ErrStuck == "Task bloccato in processing - reset automatico"
ErrPast == "Post programmato nel passato - cancellato automaticamente"

VARIABLES
    now,        \* datetime.utcnow()
    posts,      \* scheduled_posts: id -> row
    published,  \* posts table: rows created by the publisher
    tasks,      \* messages in the broker: [id, kind, post, eta, retries]
    nextTask,   \* next Celery task id
    nextPost,   \* next scheduled_posts id (autoincrement, never reused)
    extCalls,   \* per scheduled post: successful create_post_sync calls
    fails,      \* per scheduled post: failed publisher runs
    workers,    \* per worker: position in publish_scheduled_post
    lastOp      \* the operation that made the last step, and its result

vars == <<now, posts, published, tasks, nextTask, nextPost, extCalls, fails, workers, lastOp>>

PostIds == 1..MaxPosts

Idle == [pc |-> "idle", post |-> NoId, task |-> NoId, retries |-> 0, direct |-> FALSE]

\* arg: the scheduled_for of a create or update request, or the pass in
\* which a cleanup failed; err: the error text of a publisher run
Op(name, p, res) == [op |-> name, post |-> p, result |-> res, arg |-> NoTime, err |-> NoText]
OpArg(name, p, res, arg) == [Op(name, p, res) EXCEPT !.arg = arg]
OpErr(name, p, res, err) == [Op(name, p, res) EXCEPT !.err = err]

Init ==
    /\ now = 0
    /\ posts = <<>>
    /\ published = {}
    /\ tasks = {}
    /\ nextTask = 1
    /\ nextPost = 1
    /\ extCalls = [p \in PostIds |-> 0]
    /\ fails = [p \in PostIds |-> 0]
    /\ workers = [w \in Workers |-> Idle]
    /\ lastOp = Op("init", NoId, "ok")

(* ------------------------------------------------------------ the clock *)
\* The clock advances an hour at a time.  celery_app.py 56-57 ends a task
\* after 25 minutes (soft limit, raised inside the task), so no publisher run
\* is still in flight an hour later.
Tick(limit) ==
    /\ now < limit * HourSeconds
    /\ \A w \in Workers : workers[w].pc = "idle"
    /\ now' = now + HourSeconds
    /\ lastOp' = Op("tick", NoId, "ok")
    /\ UNCHANGED <<posts, published, tasks, nextTask, nextPost, extCalls, fails, workers>>

(* ----------------------------------------------------------- the broker *)
\* apply_async / delay: a message with a fresh task id
Message(id, kind, p, eta, retries) ==
    [id |-> id, kind |-> kind, post |-> p, eta |-> eta, retries |-> retries]

\* cancel_scheduled_task: control.revoke is best effort; when it takes
\* effect (took) the message with that id is dropped
Revoked(queue, id, took) ==
    IF took /\ id # NoId THEN {t \in queue : t.id # id} ELSE queue

(* ------------------------------------------------- create_scheduled_post *)
NewRowNoHandle(acct, media, sched, task) ==
    [account_id |-> acct, media_files |-> media, scheduled_for |-> sched,
     status |-> "pending", retry_count |-> 0, max_retries |-> DefaultMaxRetries,
     last_error |-> NoText, published_post_id |-> NoId,
     instagram_post_id |-> NoId, published_at |-> NoTime,
     celery_task_id |-> NoId, created_at |-> now, updated_at |-> now]

NewRow(acct, media, sched, task) ==
    [account_id |-> acct, media_files |-> media, scheduled_for |-> sched,
     status |-> "pending", retry_count |-> 0, max_retries |-> DefaultMaxRetries,
     last_error |-> NoText, published_post_id |-> NoId,
     instagram_post_id |-> NoId, published_at |-> NoTime,
     celery_task_id |-> task, created_at |-> now, updated_at |-> now]

NotFutureStrict(sched) == sched < now

\* scheduled.py 36 and 143: scheduled_for <= datetime.utcnow()
NotFuture(sched) == sched <= now

\* scheduled.py 19-69; sent: the broker accepts the message.  When apply_async
\* raises, the handler ends with a 500 after the commit of line 55: the row
\* stays, without task id and never updated
create_scheduled_post(acct, media, sched, sent) ==
    /\ UNCHANGED <<now, published, extCalls, fails, workers>>
    /\ IF acct \notin Accounts
       THEN /\ lastOp' = OpArg("create", NoId, "404", sched)
            /\ UNCHANGED <<posts, tasks, nextTask, nextPost>>
       ELSE IF NotFuture(sched)
       THEN /\ lastOp' = OpArg("create", NoId, "400", sched)
            /\ UNCHANGED <<posts, tasks, nextTask, nextPost>>
       ELSE /\ nextPost <= MaxPosts
            /\ nextTask <= MaxTasks
            /\ nextPost' = nextPost + 1
            /\ IF sent
               THEN /\ posts' = posts @@ (nextPost :> NewRow(acct, media, sched, nextTask))
                    /\ tasks' = tasks \cup {Message(nextTask, "wrapper", nextPost, sched, 0)}
                    /\ nextTask' = nextTask + 1
                    /\ lastOp' = OpArg("create", nextPost, "201", sched)
               ELSE /\ posts' = posts @@ (nextPost :>
                         [NewRow(acct, media, sched, NoId) EXCEPT !.updated_at = NoTime])
                    /\ lastOp' = OpArg("create", NoId, "500", sched)
                    /\ UNCHANGED <<tasks, nextTask>>

(* ------------------------------------------------ schedule_post_publication *)
\* the wrapper task runs at its eta and sends publish_scheduled_post.delay(id);
\* the id of that message is stored nowhere
schedule_post_publication(t) ==
    /\ t \in tasks
    /\ t.kind = "wrapper"
    /\ t.eta <= now
    /\ nextTask <= MaxTasks
    /\ tasks' = (tasks \ {t}) \cup {Message(nextTask, "publish", t.post, now, 0)}
    /\ nextTask' = nextTask + 1
    /\ lastOp' = Op("wrapper", t.post, "ok")
    /\ UNCHANGED <<now, posts, published, nextPost, extCalls, fails, workers>>

(* --------------------------------------------------- publish_scheduled_post *)
\* a commit that changed the row: onupdate sets updated_at
Touch(row) == [row EXCEPT !.updated_at = now]

RunnableOrProcessing(row) == row.status \in {"pending", "processing"}

\* publisher.py 33: the one status a run goes on from
Runnable(row) == row.status = "pending"

\* publisher.py 26-35: a worker takes a publish message and reads the row
ExecLoad(w, t) ==
    /\ workers[w].pc = "idle"
    /\ t \in tasks
    /\ t.kind = "publish"
    /\ t.eta <= now
    /\ tasks' = tasks \ {t}
    /\ IF t.post \notin DOMAIN posts
       THEN /\ lastOp' = Op("exec", t.post, "error")
            /\ UNCHANGED workers
       ELSE IF ~Runnable(posts[t.post])
       THEN /\ lastOp' = Op("exec", t.post, "skipped")
            /\ UNCHANGED workers
       ELSE /\ workers' = [workers EXCEPT ![w] =
                 [pc |-> "loaded", post |-> t.post, task |-> t.id,
                  retries |-> t.retries, direct |-> FALSE]]
            /\ lastOp' = Op("load", t.post, "ok")
    /\ UNCHANGED <<now, posts, published, nextTask, nextPost, extCalls, fails>>

\* publisher.py 37-39: status = PROCESSING; commit.  The UPDATE is keyed by
\* id only; on a row deleted meanwhile it raises and the handler finds no row
ExecClaim(w) ==
    /\ workers[w].pc = "loaded"
    /\ LET p == workers[w].post IN
       IF p \notin DOMAIN posts
       THEN /\ workers' = [workers EXCEPT ![w] = Idle]
            /\ lastOp' = Op("exec", p, "error")
            /\ UNCHANGED posts
       ELSE /\ posts' = [posts EXCEPT ![p] = Touch([@ EXCEPT !.status = "processing"])]
            /\ workers' = [workers EXCEPT ![w].pc = "claimed"]
            /\ lastOp' = Op("claim", p, "ok")
    /\ UNCHANGED <<now, published, tasks, nextTask, nextPost, extCalls, fails>>

\* publisher.py 118-123: self.retry(countdown=300, max_retries=...).  Celery
\* sends the retry message (same task id, retries + 1) unless the task was
\* called directly or its retries are used up, and then raises in every case
RetryMessages(w, p) ==
    IF workers[w].direct \/ workers[w].retries + 1 > posts[p].max_retries
    THEN {}
    ELSE {Message(workers[w].task, "publish", p, now + RetryCountdown,
                  workers[w].retries + 1)}

\* self.retry raises celery.exceptions.Retry (an Exception) at its call site
RetryRaises == TRUE

\* publisher.py 105-129: the except branch, on the row as it is now
\* (re-queried after rollback).  The exception of self.retry is caught by the
\* inner handler, which skips db.commit(); db.close() drops the changes.
FailurePath(w, p, msg) ==
    LET row == posts[p]
        count == row.retry_count + 1
        wants == count < row.max_retries
    IN  /\ fails' = [fails EXCEPT ![p] = @ + 1]
        /\ workers' = [workers EXCEPT ![w] = Idle]
        /\ lastOp' = OpErr("exec", p, "error", msg)
        /\ tasks' = IF wants THEN tasks \cup RetryMessages(w, p) ELSE tasks
        /\ posts' = IF wants /\ RetryRaises
                    THEN posts
                    ELSE [posts EXCEPT ![p] = Touch([@ EXCEPT
                             !.status = "failed", !.last_error = msg,
                             !.retry_count = count])]
        /\ UNCHANGED <<published, extCalls>>

LinkedNoTime(row, pid, ext) ==
    Touch([row EXCEPT !.status = "published", !.published_post_id = pid,
                      !.instagram_post_id = ext])

\* publisher.py 98-102: the scheduled post is linked to the new Post
Linked(row, pid, ext) ==
    Touch([row EXCEPT !.status = "published", !.published_post_id = pid,
                      !.instagram_post_id = ext, !.published_at = now])

\* publisher.py 72-103: the Post row, the result linkage, one commit
SuccessPath(w, p) ==
    LET ext == Cardinality(published) + 1
        pid == Cardinality(published) + 1
    IN  /\ extCalls' = [extCalls EXCEPT ![p] = @ + 1]
        /\ published' = published \cup
              {[id |-> pid, account_id |-> posts[p].account_id,
                instagram_post_id |-> ext, scheduled |-> p]}
        /\ posts' = [posts EXCEPT ![p] = Linked(@, pid, ext)]
        /\ workers' = [workers EXCEPT ![w] = Idle]
        /\ lastOp' = Op("exec", p, "success")
        /\ UNCHANGED <<tasks, fails>>

\* what the environment answers: the account row, validate_token, the API
Outcomes == {"inactive", "badtoken", "apierror", "ok"}

HasMediaAlways(row) == row.media_files >= 0

\* publisher.py 51-70: media_urls is not empty
HasMedia(row) == row.media_files > 0

\* publisher.py 41-103 and the handler 105-129
ExecRun(w, outcome) ==
    /\ workers[w].pc = "claimed"
    /\ UNCHANGED <<now, nextTask, nextPost>>
    /\ LET p == workers[w].post IN
       IF p \notin DOMAIN posts
       THEN /\ workers' = [workers EXCEPT ![w] = Idle]
            /\ lastOp' = Op("exec", p, "error")
            /\ UNCHANGED <<posts, published, tasks, extCalls, fails>>
       ELSE IF outcome = "inactive" THEN FailurePath(w, p, ErrAccount)
       ELSE IF outcome = "badtoken" THEN FailurePath(w, p, ErrToken)
       ELSE IF ~HasMedia(posts[p]) THEN FailurePath(w, p, ErrMedia)
       ELSE IF outcome = "apierror" THEN FailurePath(w, p, ErrApi)
       ELSE IF outcome = "ratelimit" THEN FailurePath(w, p, ErrRate)
       ELSE SuccessPath(w, p)

(* ------------------------------------------------- update_scheduled_post *)
Unset == "unset"
\* the status values a request carries here, Unset when it has none
RequestStatuses == {Unset, "pending", "published"}

EditableUnlessPublished(row) == row.status # "published"

\* scheduled.py 130: the statuses update accepts
Editable(row) == row.status \in {"pending", "failed"}

\* scheduled.py 136-139: setattr for every field the request carries
Assigned(row, st, sched) ==
    [row EXCEPT !.status = IF st = Unset THEN @ ELSE st,
                !.scheduled_for = IF sched = NoTime THEN @ ELSE sched]

\* scheduled.py 114-164; sched = NoTime when the request has no scheduled_for
update_scheduled_post(p, st, sched, took) ==
    /\ UNCHANGED <<now, published, nextPost, extCalls, fails, workers>>
    /\ IF p \notin DOMAIN posts
       THEN /\ lastOp' = Op("update", p, "404")
            /\ UNCHANGED <<posts, tasks, nextTask>>
       ELSE IF ~Editable(posts[p])
       THEN /\ lastOp' = Op("update", p, "400")
            /\ UNCHANGED <<posts, tasks, nextTask>>
       ELSE IF sched = NoTime
       THEN /\ posts' = [posts EXCEPT ![p] =
                 IF Assigned(@, st, sched) = @ THEN @ ELSE Touch(Assigned(@, st, sched))]
            /\ lastOp' = Op("update", p, "200")
            /\ UNCHANGED <<tasks, nextTask>>
       ELSE IF NotFuture(sched)
       THEN /\ lastOp' = OpArg("update", p, "400", sched)
            /\ UNCHANGED <<posts, tasks, nextTask>>
       ELSE /\ nextTask <= MaxTasks
            /\ tasks' = Revoked(tasks, posts[p].celery_task_id, took)
                          \cup {Message(nextTask, "wrapper", p, sched, 0)}
            /\ nextTask' = nextTask + 1
            /\ posts' = [posts EXCEPT ![p] =
                 Touch([Assigned(@, st, sched) EXCEPT !.celery_task_id = nextTask])]
            /\ lastOp' = OpArg("update", p, "200", sched)

(* ------------------------------------------------- cancel_scheduled_post *)
CancelRefusedNever(row) == row.status = "cancelled"

\* scheduled.py 181: the one status cancel refuses
CancelRefused(row) == row.status = "published"

\* scheduled.py 166-196
cancel_scheduled_post(p, took) ==
    /\ UNCHANGED <<now, published, nextTask, nextPost, extCalls, fails, workers>>
    /\ IF p \notin DOMAIN posts
       THEN /\ lastOp' = Op("cancel", p, "404")
            /\ UNCHANGED <<posts, tasks>>
       ELSE IF CancelRefused(posts[p])
       THEN /\ lastOp' = Op("cancel", p, "400")
            /\ UNCHANGED <<posts, tasks>>
       ELSE /\ tasks' = Revoked(tasks, posts[p].celery_task_id, took)
            /\ posts' = [posts EXCEPT ![p] =
                 IF @.status = "cancelled" THEN @
                 ELSE Touch([@ EXCEPT !.status = "cancelled"])]
            /\ lastOp' = Op("cancel", p, "200")

(* ---------------------------------------------------- get_scheduled_post *)
\* scheduled.py 97-112: the row by id, whatever its status
get_scheduled_post(p) ==
    /\ lastOp' = Op("get", p, IF p \in DOMAIN posts THEN "200" ELSE "404")
    /\ UNCHANGED <<now, posts, published, tasks, nextTask, nextPost, extCalls, fails, workers>>

(* -------------------------------------------- execute_scheduled_post_now *)
\* scheduled.py 198-233
execute_scheduled_post_now(p, took) ==
    /\ UNCHANGED <<now, published, nextPost, extCalls, fails, workers>>
    /\ IF p \notin DOMAIN posts
       THEN /\ lastOp' = Op("execute", p, "404")
            /\ UNCHANGED <<posts, tasks, nextTask>>
       ELSE IF posts[p].status # "pending"
       THEN /\ lastOp' = Op("execute", p, "400")
            /\ UNCHANGED <<posts, tasks, nextTask>>
       ELSE /\ nextTask <= MaxTasks
            /\ tasks' = Revoked(tasks, posts[p].celery_task_id, took)
                          \cup {Message(nextTask, "publish", p, now, 0)}
            /\ nextTask' = nextTask + 1
            /\ posts' = [posts EXCEPT ![p] = Touch([@ EXCEPT
                 !.celery_task_id = nextTask, !.status = "processing"])]
            /\ lastOp' = Op("execute", p, "200")

(* -------------------------------------------------- republish_failed_post *)
RepublishedKeepsError(row) == [row EXCEPT !.status = "pending", !.retry_count = 0]

\* publisher.py 180-183: reset of status and counters
Republished(row) ==
    [row EXCEPT !.status = "pending", !.retry_count = 0, !.last_error = NoText]

\* publisher.py 167-194: reset, commit, then publish_scheduled_post(id) called
\* directly in the same worker, which reads the row it has just committed
republish_failed_post(w, p) ==
    /\ workers[w].pc = "idle"
    /\ UNCHANGED <<now, published, tasks, nextTask, nextPost, extCalls, fails>>
    /\ IF p \notin DOMAIN posts \/ posts[p].status # "failed"
       THEN /\ lastOp' = Op("republish", p, "error")
            /\ UNCHANGED <<posts, workers>>
       ELSE /\ posts' = [posts EXCEPT ![p] = Touch(Republished(@))]
            /\ workers' = [workers EXCEPT ![w] =
                 [pc |-> "loaded", post |-> p, task |-> NoId, retries |-> 0, direct |-> TRUE]]
            /\ lastOp' = Op("republish", p, "ok")

(* --------------------------------------------------- cleanup_failed_tasks *)
\* maintenance.py 104-109, 115-120, 127-132: the three queries, each on the
\* committed rows (autoflush is off)
OldFailedAnyStatus == {p \in DOMAIN posts : posts[p].created_at <= now - OldCutoff}

OldFailed == {p \in DOMAIN posts :
    posts[p].status = "failed" /\ posts[p].created_at <= now - OldCutoff}
StuckProcessingAll == {p \in DOMAIN posts : posts[p].status = "processing"}

StuckProcessingNone == {p \in DOMAIN posts : FALSE}

StuckProcessing == {p \in DOMAIN posts :
    /\ posts[p].status = "processing"
    /\ posts[p].updated_at # NoTime
    /\ posts[p].updated_at <= now - ProcessingCutoff}
PastPendingAll == {p \in DOMAIN posts : posts[p].status = "pending"}

PastPending == {p \in DOMAIN posts :
    posts[p].status = "pending" /\ posts[p].scheduled_for <= now - PastCutoff}

\* the three passes in the order of the code: the purge, the reset of stuck
\* rows, the cancellation of past rows; NoPass when none of them raises
NoPass == 0
Passes == 1..3

\* maintenance.py 104-139: the session after the three passes
Swept ==
    [p \in DOMAIN posts \ OldFailed |->
        IF p \in StuckProcessing
        THEN Touch([posts[p] EXCEPT !.status = "failed", !.last_error = ErrStuck])
        ELSE IF p \in PastPending
        THEN Touch([posts[p] EXCEPT !.status = "cancelled", !.last_error = ErrPast])
        ELSE posts[p]]

\* maintenance.py 92-150: one try block, one transaction, one commit after
\* the third pass.  broken: the pass in which the database raises; the
\* except branch of 144-147 rolls the whole session back
cleanup_failed_tasks(broken) ==
    /\ IF broken = NoPass
       THEN /\ posts' = Swept
            /\ lastOp' = Op("cleanup", NoId, "success")
       ELSE /\ posts' = posts
            /\ lastOp' = OpArg("cleanup", NoId, "error", broken)
    /\ UNCHANGED <<now, published, tasks, nextTask, nextPost, extCalls, fails, workers>>

\* request values: a time in the past, the present instant, a future time
Times == {now - HourSeconds, now, now + HourSeconds}

Next ==
    \/ Tick(MaxTicks)
    \/ \E a \in AccountIds, m \in 0..1, s \in Times : create_scheduled_post(a, m, s, TRUE)
    \/ \E p \in PostIds, st \in RequestStatuses, s \in Times \cup {NoTime},
          took \in BOOLEAN : update_scheduled_post(p, st, s, took)
    \/ \E p \in PostIds, took \in BOOLEAN : cancel_scheduled_post(p, took)
    \/ \E p \in PostIds, took \in BOOLEAN : execute_scheduled_post_now(p, took)
    \/ \E w \in Workers, p \in PostIds : republish_failed_post(w, p)
    \/ cleanup_failed_tasks(NoPass)
    \/ \E t \in tasks : schedule_post_publication(t)
    \/ \E w \in Workers, t \in tasks : ExecLoad(w, t)
    \/ \E w \in Workers : ExecClaim(w)
    \/ \E w \in Workers, o \in Outcomes : ExecRun(w, o)

Spec == Init /\ [][Next]_vars
(***************************************************************************)
(* SpecRetry: one post and its publisher runs over a longer time span: the *)
(* create, the status-only update, the broker, the publisher, the cleanup. *)
(***************************************************************************)
\* the outcomes of a run, the API answering 429 among them
RetryOutcomes == Outcomes \cup {"ratelimit"}

NextRetry ==
    \/ Tick(MaxTicksRetry)
    \/ create_scheduled_post(1, 1, now + HourSeconds, TRUE)
    \/ \E p \in PostIds : update_scheduled_post(p, "pending", NoTime, FALSE)
    \/ cleanup_failed_tasks(NoPass)
    \/ \E t \in tasks : schedule_post_publication(t)
    \/ \E w \in Workers, t \in tasks : ExecLoad(w, t)
    \/ \E w \in Workers : ExecClaim(w)
    \/ \E w \in Workers, o \in RetryOutcomes : ExecRun(w, o)

SpecRetry == Init /\ [][NextRetry]_vars

(* ------------------------------------------ create under every request *)
\* account ids of requests: an active account, no such account, an
\* account that exists with is_active False
CreateAccountIds == {1, 2, 3}

\* apply_async either returns or raises (broker unreachable)
NextCreate ==
    \/ Tick(MaxTicks)
    \/ \E a \in CreateAccountIds, m \in 0..1, s \in Times, sent \in BOOLEAN :
          create_scheduled_post(a, m, s, sent)
    \/ \E p \in PostIds, took \in BOOLEAN : cancel_scheduled_post(p, took)
    \/ \E p \in PostIds : get_scheduled_post(p)
    \/ cleanup_failed_tasks(NoPass)
    \/ \E t \in tasks : schedule_post_publication(t)
    \/ \E w \in Workers, t \in tasks : ExecLoad(w, t)
    \/ \E w \in Workers : ExecClaim(w)
    \/ \E w \in Workers, o \in Outcomes : ExecRun(w, o)

SpecCreate == Init /\ [][NextCreate]_vars

(* ------------------------------------------- execute now, when all is well *)
\* the account is active, the token valid, the media present and the API
\* call succeeds; the broker delivers every message that is due and a
\* worker that has started a run finishes it
NextNow ==
    \/ Tick(MaxTicks)
    \/ create_scheduled_post(1, 1, now + HourSeconds, TRUE)
    \/ \E p \in PostIds, took \in BOOLEAN : execute_scheduled_post_now(p, took)
    \/ \E t \in tasks : schedule_post_publication(t)
    \/ \E w \in Workers, t \in tasks : ExecLoad(w, t)
    \/ \E w \in Workers : ExecClaim(w)
    \/ \E w \in Workers : ExecRun(w, "ok")

FairNow ==
    /\ WF_vars(\E t \in tasks : schedule_post_publication(t))
    /\ WF_vars(\E w \in Workers, t \in tasks : ExecLoad(w, t))
    /\ WF_vars(\E w \in Workers : ExecClaim(w))
    /\ WF_vars(\E w \in Workers : ExecRun(w, "ok"))

SpecNow == Init /\ [][NextNow]_vars /\ FairNow

(* -------------------------------------------- sweeper runs on the workers *)
\* a message for the task cleanup_failed_tasks is put on the queue (beat
\* entry of celery_app.py 49-52, or any producer); nothing bounds how many
\* wait there while the workers are busy or away
SendCleanup ==
    /\ nextTask <= MaxTasks
    /\ tasks' = tasks \cup {Message(nextTask, "cleanup", NoId, now, 0)}
    /\ nextTask' = nextTask + 1
    /\ lastOp' = Op("send", NoId, "ok")
    /\ UNCHANGED <<now, posts, published, nextPost, extCalls, fails, workers>>

\* maintenance.py 92-97: a worker receives the message and opens its
\* session; the task takes no lock and reads no marker of a running sweep
SweepStart(w, t) ==
    /\ workers[w].pc = "idle"
    /\ t \in tasks
    /\ t.kind = "cleanup"
    /\ tasks' = tasks \ {t}
    /\ workers' = [workers EXCEPT ![w] =
          [pc |-> "sweeping", post |-> NoId, task |-> t.id, retries |-> 0, direct |-> FALSE]]
    /\ lastOp' = Op("sweep", NoId, "started")
    /\ UNCHANGED <<now, posts, published, nextTask, nextPost, extCalls, fails>>

\* maintenance.py 104-150: the three passes and the commit, or the rollback
SweepEnd(w, broken) ==
    /\ workers[w].pc = "sweeping"
    /\ workers' = [workers EXCEPT ![w] = Idle]
    /\ IF broken = NoPass
       THEN /\ posts' = Swept
            /\ lastOp' = Op("cleanup", NoId, "success")
       ELSE /\ posts' = posts
            /\ lastOp' = OpArg("cleanup", NoId, "error", broken)
    /\ UNCHANGED <<now, published, tasks, nextTask, nextPost, extCalls, fails>>

NextOverlap ==
    \/ Tick(MaxTicks)
    \/ create_scheduled_post(1, 1, now + HourSeconds, TRUE)
    \/ \E p \in PostIds : execute_scheduled_post_now(p, FALSE)
    \/ SendCleanup
    \/ \E w \in Workers, t \in tasks : SweepStart(w, t)
    \/ \E w \in Workers, f \in {NoPass} \cup Passes : SweepEnd(w, f)
    \/ \E t \in tasks : schedule_post_publication(t)
    \/ \E w \in Workers, t \in tasks : ExecLoad(w, t)
    \/ \E w \in Workers : ExecClaim(w)
    \/ \E w \in Workers, o \in Outcomes : ExecRun(w, o)

SpecOverlap == Init /\ [][NextOverlap]_vars

(* ------------------------------------------------ rows left in PROCESSING *)
\* celery_app.py 55-56: at the hard time limit the worker process running
\* the task is killed; nothing of the task's handler runs any more
ExecCrash(w) ==
    /\ workers[w].pc = "claimed"
    /\ workers' = [workers EXCEPT ![w] = Idle]
    /\ lastOp' = Op("exec", workers[w].post, "killed")
    /\ UNCHANGED <<now, posts, published, tasks, nextTask, nextPost, extCalls, fails>>

NextStuck ==
    \/ Tick(MaxTicksStuck)
    \/ create_scheduled_post(1, 1, now + HourSeconds, TRUE)
    \/ \E p \in PostIds, took \in BOOLEAN : execute_scheduled_post_now(p, took)
    \/ \E f \in {NoPass} \cup Passes : cleanup_failed_tasks(f)
    \/ \E t \in tasks : schedule_post_publication(t)
    \/ \E w \in Workers, t \in tasks : ExecLoad(w, t)
    \/ \E w \in Workers : ExecClaim(w)
    \/ \E w \in Workers, o \in Outcomes : ExecRun(w, o)
    \/ \E w \in Workers : ExecCrash(w)

\* time passes, a run that started ends (time limits), and the sweeper is
\* scheduled fairly: a run of it that commits happens again and again
FairStuck ==
    /\ WF_vars(Tick(MaxTicksStuck))
    /\ WF_vars(\E w \in Workers : ExecClaim(w))
    /\ WF_vars(\E w \in Workers, o \in Outcomes : ExecRun(w, o))
    /\ WF_vars(cleanup_failed_tasks(NoPass))

SpecStuck == Init /\ [][NextStuck]_vars /\ FairStuck

(* ------------------------------------------------- a post that always fails *)
\* the outcomes in which the run raises
FailingOutcomes == {"inactive", "badtoken", "apierror"}

\* the most favourable course to FAILED with the retries used up: the post
\* is created and left alone, every message is delivered, every run fails;
\* the sweeper may run
\* the broker delivers promptly: an hour passes only when no message is due
TickPrompt(limit) ==
    /\ \A t \in tasks : t.eta > now
    /\ Tick(limit)

NextExhaust ==
    \/ TickPrompt(MaxTicksRetry)
    \/ \E m \in 0..1 : create_scheduled_post(1, m, now + HourSeconds, TRUE)
    \/ cleanup_failed_tasks(NoPass)
    \/ \E t \in tasks : schedule_post_publication(t)
    \/ \E w \in Workers, t \in tasks : ExecLoad(w, t)
    \/ \E w \in Workers : ExecClaim(w)
    \/ \E w \in Workers, o \in FailingOutcomes : ExecRun(w, o)

FairExhaust ==
    /\ WF_vars(TickPrompt(MaxTicksRetry))
    /\ WF_vars(\E t \in tasks : schedule_post_publication(t))
    /\ WF_vars(\E w \in Workers, t \in tasks : ExecLoad(w, t))
    /\ WF_vars(\E w \in Workers : ExecClaim(w))
    /\ WF_vars(\E w \in Workers, o \in FailingOutcomes : ExecRun(w, o))

SpecExhaust == Init /\ [][NextExhaust]_vars /\ FairExhaust

(* ------------------------------------------------ create, then reschedule *)
\* a post is created and rescheduled; it is never executed at once and
\* never republished. The revoke of the stored handle either reaches the
\* message or does not (cancel_scheduled_task swallows every error)
NextEdit ==
    \/ Tick(MaxTicks)
    \/ create_scheduled_post(1, 1, now + HourSeconds, TRUE)
    \/ \E p \in PostIds, s \in Times, took \in BOOLEAN :
          update_scheduled_post(p, Unset, s, took)
    \/ \E t \in tasks : schedule_post_publication(t)
    \/ \E w \in Workers, t \in tasks : ExecLoad(w, t)
    \/ \E w \in Workers : ExecClaim(w)
    \/ \E w \in Workers, o \in Outcomes : ExecRun(w, o)

SpecEdit == Init /\ [][NextEdit]_vars

(* ------------------------------------------------ the sweeper over time *)
\* the clock between two beats of cleanup_failed_tasks: an hour, or the
\* thirty days of the retention window
Advance(d) ==
    /\ \A w \in Workers : workers[w].pc = "idle"
    /\ \/ d = HourSeconds /\ now % OldCutoff < MaxSweepHours * HourSeconds
       \/ d = OldCutoff /\ now \div OldCutoff < MaxSweepMonths
    /\ now' = now + d
    /\ lastOp' = Op("tick", NoId, "ok")
    /\ UNCHANGED <<posts, published, tasks, nextTask, nextPost, extCalls, fails, workers>>

NextSweep ==
    \/ \E d \in {HourSeconds, OldCutoff} : Advance(d)
    \/ create_scheduled_post(1, 1, now + HourSeconds, TRUE)
    \/ \E p \in PostIds : execute_scheduled_post_now(p, FALSE)
    \/ \E f \in {NoPass} \cup Passes : cleanup_failed_tasks(f)
    \/ \E t \in tasks : schedule_post_publication(t)
    \/ \E w \in Workers, t \in tasks : ExecLoad(w, t)
    \/ \E w \in Workers : ExecClaim(w)
    \/ \E w \in Workers, o \in Outcomes : ExecRun(w, o)

SpecSweep == Init /\ [][NextSweep]_vars


(* ------------------------------------------------------------- helpers *)
\* retry messages of post p in the broker
RetryMsgs(p) == {t \in tasks : t.post = p /\ t.retries >= 1}
\* the step is a publisher run of post p that took the failure path
FailedRun(p) == fails'[p] = fails[p] + 1
\* rows of the posts table created for scheduled post p
PublishedFor(p) == {r \in published : r.scheduled = p}

(* ---------------------------------------------------------------- C1 *)
\* C1: after every step, every scheduled post has retry_count <= max_retries,
\* and a post with retry_count = max_retries is FAILED and the step has
\* requested no retry of it.
C1_RetryBounded ==
    [][\A p \in DOMAIN posts' :
          /\ posts'[p].retry_count <= posts'[p].max_retries
          /\ posts'[p].retry_count = posts'[p].max_retries =>
                /\ posts'[p].status = "failed"
                /\ RetryMsgs(p)' \subseteq RetryMsgs(p)]_vars

\* a publisher run has failed and asked for a retry
C1_Witness ==
    \E p \in DOMAIN posts :
        /\ fails[p] >= 1
        /\ RetryMsgs(p) # {}
        /\ posts[p].retry_count <= posts[p].max_retries

(* ---------------------------------------------------------------- C2 *)
\* C2: for every scheduled post, published_post_id is set if and only if
\* its status is PUBLISHED.
C2_LinkedIffPublished ==
    \A p \in DOMAIN posts :
        (posts[p].published_post_id # NoId) <=> (posts[p].status = "published")

(* ---------------------------------------------------------------- C3 *)
\* C3: of two publisher runs that both read the same post as PENDING, only
\* one goes on past the PENDING -> PROCESSING transition: the other sees a
\* status that is no longer PENDING and stops.  So when a run makes the
\* transition, no other run is past the transition for the same post.
C3_OneClaims ==
    [][\A w \in Workers :
          (workers[w].pc = "loaded" /\ workers'[w].pc = "claimed") =>
             \A v \in Workers \ {w} :
                ~(workers[v].pc = "claimed" /\ workers[v].post = workers[w].post)]_vars

(* ---------------------------------------------------------------- C4 *)
\* C4: for every scheduled post at most one Post row is ever created and at
\* most one external publish call ever succeeds.
C4_PublishedOnce ==
    \A p \in PostIds :
        /\ Cardinality(PublishedFor(p)) <= 1
        /\ extCalls[p] <= 1

(* ---------------------------------------------------------------- C5 *)
\* C5: a create whose scheduled_for is not strictly after now is answered
\* with an error, inserts no row and sends no message to the broker.
C5_PastCreateRejected ==
    [][(lastOp'.op = "create" /\ lastOp'.arg <= now) =>
          /\ lastOp'.result \in {"400", "404"}
          /\ posts' = posts
          /\ tasks' = tasks
          /\ nextTask' = nextTask
          /\ nextPost' = nextPost]_vars

\* a create for the known account at exactly the present instant was refused
C5_Witness ==
    /\ lastOp.op = "create"
    /\ lastOp.arg = now
    /\ lastOp.result = "400"

(* ---------------------------------------------------------------- C6 *)
\* C6: a cancel of a PUBLISHED post is answered with 400 and changes neither
\* the row nor the broker (no revoke).
C6_CancelPublishedRefused ==
    [][(/\ lastOp'.op = "cancel"
        /\ lastOp'.post \in DOMAIN posts
        /\ posts[lastOp'.post].status = "published") =>
          /\ lastOp'.result = "400"
          /\ posts' = posts
          /\ tasks' = tasks]_vars

\* a cancel was refused on a post the publisher has published
C6_Witness ==
    /\ lastOp.op = "cancel"
    /\ lastOp.result = "400"
    /\ lastOp.post \in DOMAIN posts
    /\ posts[lastOp.post].status = "published"
    /\ posts[lastOp.post].published_post_id # NoId

(* ---------------------------------------------------------------- C7 *)
\* C7: a cancel succeeds only on a post that is PENDING or FAILED; on any
\* other status (PROCESSING in particular) it is refused and changes nothing.
C7_CancelOnlyPendingOrFailed ==
    [][(lastOp'.op = "cancel" /\ lastOp'.post \in DOMAIN posts) =>
          IF posts[lastOp'.post].status \in {"pending", "failed"}
          THEN lastOp'.result = "200"
          ELSE lastOp'.result = "400" /\ posts' = posts]_vars

(* ---------------------------------------------------------------- C8 *)
\* C8: when every publisher run of a post has failed, the run that is the
\* max_retries-th failure leaves the post FAILED with retry_count =
\* max_retries, last_error the text of that failure, and sends no retry.
C8_ExhaustedAfterN ==
    [][\A p \in DOMAIN posts :
          (FailedRun(p) /\ fails'[p] = posts[p].max_retries /\ extCalls[p] = 0) =>
             /\ posts'[p].status = "failed"
             /\ posts'[p].retry_count = posts[p].max_retries
             /\ posts'[p].last_error = lastOp'.err
             /\ tasks' = tasks]_vars

(* ---------------------------------------------------------------- C9 *)
\* C9: a failed publisher run increments retry_count and sets last_error;
\* with retries left it puts the post back to PENDING and sends a retry
\* message, otherwise it sets FAILED and sends nothing.
C9_FailureRequeues ==
    [][\A p \in DOMAIN posts :
          FailedRun(p) =>
             /\ posts'[p].retry_count = posts[p].retry_count + 1
             /\ posts'[p].last_error = lastOp'.err
             /\ IF posts'[p].retry_count < posts'[p].max_retries
                THEN posts'[p].status = "pending" /\ RetryMsgs(p)' # RetryMsgs(p)
                ELSE posts'[p].status = "failed" /\ tasks' = tasks]_vars

(* ---------------------------------------------------------------- C10 *)
\* C10: a publisher run whose external publish call raises returns an error
\* and leaves the post FAILED with an error text recorded.
C10_ApiErrorMarksFailed ==
    [][\A p \in DOMAIN posts :
          (FailedRun(p) /\ lastOp'.err = ErrApi) =>
             /\ lastOp'.result = "error"
             /\ posts'[p].status = "failed"
             /\ posts'[p].last_error # NoText]_vars
C12_DisallowedRefused ==
    [][(/\ lastOp'.post \in DOMAIN posts
        /\ \/ lastOp'.op = "update"
              /\ posts[lastOp'.post].status \notin {"pending", "failed"}
           \/ lastOp'.op = "execute"
              /\ posts[lastOp'.post].status # "pending"
           \/ lastOp'.op = "republish"
              /\ posts[lastOp'.post].status # "failed") =>
          /\ lastOp'.result \in {"400", "error"}
          /\ posts' = posts
          /\ tasks' = tasks
          /\ nextTask' = nextTask
          /\ workers' = workers]_vars

\* an update was refused on a post in PROCESSING
C12_Witness ==
    /\ lastOp.op = "update"
    /\ lastOp.result = "400"
    /\ lastOp.post \in DOMAIN posts
    /\ posts[lastOp.post].status = "processing"
C16_ProcessingOnlyByExecutor ==
    [][lastOp'.op \in {"create", "update", "cancel", "execute", "republish"} =>
         /\ \A p \in DOMAIN posts' :
               posts'[p].status = "processing" =>
                  p \in DOMAIN posts /\ posts[p].status = "processing"
         /\ (lastOp'.op = "execute" /\ lastOp'.result = "200") =>
               posts'[lastOp'.post].status = "pending"]_vars
(* ---------------------------------------------------------------- C17 *)
\* C17: a create for an existing account and a strictly future time is
\* accepted, and an accepted create inserts one row with status PENDING and
\* retry_count 0, sends exactly one message whose eta is scheduled_for, and
\* stores the id of that message on the row.
C17_CreateSchedules ==
    [][lastOp'.op = "create" =>
         /\ lastOp'.arg > now => lastOp'.result \in {"201", "404"}
         /\ lastOp'.result = "201" =>
               /\ lastOp'.post \notin DOMAIN posts
               /\ DOMAIN posts' = DOMAIN posts \cup {lastOp'.post}
               /\ \A q \in DOMAIN posts : posts'[q] = posts[q]
               /\ posts'[lastOp'.post].status = "pending"
               /\ posts'[lastOp'.post].retry_count = 0
               /\ posts'[lastOp'.post].scheduled_for = lastOp'.arg
               /\ tasks \subseteq tasks'
               /\ Cardinality(tasks' \ tasks) = 1
               /\ \A t \in tasks' \ tasks :
                     /\ t.post = lastOp'.post
                     /\ t.eta = posts'[lastOp'.post].scheduled_for
                     /\ t.id = posts'[lastOp'.post].celery_task_id]_vars

\* a create with one media file has just been accepted
C17_Witness ==
    /\ lastOp.op = "create"
    /\ lastOp.result = "201"
    /\ lastOp.post \in DOMAIN posts
    /\ posts[lastOp.post].media_files >= 1
    /\ posts[lastOp.post].scheduled_for > now
    /\ posts[lastOp.post].status = "pending"
    /\ \E t \in tasks : t.id = posts[lastOp.post].celery_task_id
(* ---------------------------------------------------------------- C18 *)
\* C18: create is atomic with respect to dispatch: either it is accepted
\* and both the row and a message for it exist, or it is refused and
\* neither a row nor a message has been added.
C18_CreateAtomic ==
    [][lastOp'.op = "create" =>
         \/ /\ lastOp'.result = "201"
            /\ lastOp'.post \in DOMAIN posts' \ DOMAIN posts
            /\ \E t \in tasks' \ tasks : t.post = lastOp'.post
         \/ /\ lastOp'.result # "201"
            /\ posts' = posts
            /\ tasks' = tasks]_vars

(* ---------------------------------------------------------------- C19 *)
\* C19: a create for an account that does not exist or is not active is
\* refused: every create step that adds a row or sends a message does so
\* for an active account.
C19_CreateNeedsActiveAccount ==
    [][lastOp'.op = "create" =>
         /\ \A p \in DOMAIN posts' \ DOMAIN posts :
               posts'[p].account_id \in ActiveAccounts
         /\ \A t \in tasks' \ tasks :
               /\ t.post \in DOMAIN posts'
               /\ posts'[t.post].account_id \in ActiveAccounts]_vars

(* ---------------------------------------------------------------- C20 *)
\* C20: a create with an empty media list is refused: every create step
\* that adds a row or sends a message does so for a post with at least one
\* media file.
C20_CreateNeedsMedia ==
    [][lastOp'.op = "create" =>
         /\ \A p \in DOMAIN posts' \ DOMAIN posts : posts'[p].media_files >= 1
         /\ \A t \in tasks' \ tasks :
               /\ t.post \in DOMAIN posts'
               /\ posts'[t.post].media_files >= 1]_vars
(* ---------------------------------------------------------------- C21 *)
\* C21: an accepted update of a FAILED row to a strictly future time sets
\* its status to PENDING, sends one message at the new time and stores the
\* id of that message on the row.
C21_RescheduleFailedResets ==
    [][(/\ lastOp'.op = "update"
        /\ lastOp'.result = "200"
        /\ lastOp'.arg # NoTime
        /\ lastOp'.post \in DOMAIN posts
        /\ posts[lastOp'.post].status = "failed") =>
          /\ posts'[lastOp'.post].status = "pending"
          /\ posts'[lastOp'.post].scheduled_for = lastOp'.arg
          /\ \E t \in tasks' \ tasks :
                /\ t.eta = lastOp'.arg
                /\ t.id = posts'[lastOp'.post].celery_task_id]_vars

(* ---------------------------------------------------------------- C22 *)
\* C22: PUBLISHED and CANCELLED are terminal: no step of a publisher run,
\* of the wrapper task or of the sweeper changes the status of a row that
\* is PUBLISHED or CANCELLED.
C22_TerminalStatusKept ==
    [][lastOp'.op \in {"load", "claim", "exec", "wrapper", "cleanup"} =>
         \A p \in DOMAIN posts :
            posts[p].status \in {"published", "cancelled"} =>
               /\ p \in DOMAIN posts'
               /\ posts'[p].status = posts[p].status]_vars
(* ---------------------------------------------------------------- C23 *)
\* C23: after a post has been cancelled through the delete operation, a
\* get of that id answers not found.
C23_GetAfterDeleteNotFound ==
    [][(/\ lastOp.op = "cancel"
        /\ lastOp.result = "200"
        /\ lastOp'.op = "get"
        /\ lastOp'.post = lastOp.post) =>
          lastOp'.result = "404"]_vars
(* ---------------------------------------------------------------- C24 *)
\* C24: a publisher run that claimed a row commits a whole outcome before
\* it returns: when the run ends the row is not PROCESSING any more, and a
\* failed run leaves retry_count incremented together with its last_error
\* and a status of PENDING or FAILED.
C24_RunCommitsOutcome ==
    [][\A w \in Workers :
          (/\ workers[w].pc = "claimed"
           /\ workers'[w].pc = "idle"
           /\ workers[w].post \in DOMAIN posts) =>
             /\ workers[w].post \in DOMAIN posts'
             /\ posts'[workers[w].post].status # "processing"
             /\ lastOp'.result = "error" =>
                   /\ posts'[workers[w].post].retry_count =
                         posts[workers[w].post].retry_count + 1
                   /\ posts'[workers[w].post].last_error = lastOp'.err
                   /\ posts'[workers[w].post].status \in {"pending", "failed"}]_vars
(* ---------------------------------------------------------------- C25 *)
\* C25: after an accepted execute-now on a PENDING post for which every
\* check and the API call succeed, the post eventually is PUBLISHED,
\* provided the broker delivers its messages.
C25_ExecuteNowPublishes ==
    \A p \in PostIds :
       (lastOp.op = "execute" /\ lastOp.result = "200" /\ lastOp.post = p)
          ~> (p \in DOMAIN posts /\ posts[p].status = "published")
(* ---------------------------------------------------------------- C26 *)
\* C26: a publisher invocation for an id that has no row, or whose row is
\* not PENDING, stops: no row changes, the API is not called, no message is
\* sent and no run is in progress afterwards.
C26_SkippedRunChangesNothing ==
    [][\A t \in tasks \ tasks' :
          (/\ lastOp'.op \in {"exec", "load"}
           /\ t.kind = "publish"
           /\ \/ t.post \notin DOMAIN posts
              \/ posts[t.post].status # "pending") =>
             /\ lastOp'.result \in {"error", "skipped"}
             /\ posts' = posts
             /\ published' = published
             /\ extCalls' = extCalls
             /\ fails' = fails
             /\ tasks' = tasks \ {t}
             /\ nextTask' = nextTask
             /\ workers' = workers]_vars

\* an invocation has just been skipped on a row that is not PENDING
C26_Witness ==
    /\ lastOp.op = "exec"
    /\ lastOp.result = "skipped"
    /\ lastOp.post \in DOMAIN posts
    /\ posts[lastOp.post].status # "pending"
(* ---------------------------------------------------------------- C27 *)
\* C27: at any time a post has at most one message in the broker, and that
\* message is the one whose id is stored on the row.
C27_OneLiveHandle ==
    \A p \in DOMAIN posts :
       /\ Cardinality({t \in tasks : t.post = p}) <= 1
       /\ \A t \in tasks : t.post = p => t.id = posts[p].celery_task_id
(* ---------------------------------------------------------------- C28 *)
\* C28: when one of the three passes of a sweep fails, the repairs of the
\* other two passes are still applied and committed by that run.
C28_PassFailureIsolated ==
    [][(lastOp'.op = "cleanup" /\ lastOp'.result = "error") =>
          /\ lastOp'.arg # 1 => \A p \in OldFailed : p \notin DOMAIN posts'
          /\ lastOp'.arg # 2 =>
                \A p \in StuckProcessing \ OldFailed :
                   p \in DOMAIN posts' /\ posts'[p].status = "failed"
          /\ lastOp'.arg # 3 =>
                \A p \in PastPending \ OldFailed :
                   p \in DOMAIN posts' /\ posts'[p].status = "cancelled"]_vars
(* ---------------------------------------------------------------- C29 *)
\* C29: at most one sweeper run is active at any time.
C29_OneSweeper ==
    Cardinality({w \in Workers : workers[w].pc = "sweeping"}) <= 1

(* ---------------------------------------------------------------- C30 *)
\* C30: a sweep is idempotent: a second sweep right after one that
\* committed, with no other step in between, changes no row.
C30_SweepIdempotent ==
    [][(/\ lastOp.op = "cleanup"
        /\ lastOp.result = "success"
        /\ lastOp'.op = "cleanup"
        /\ lastOp'.result = "success") =>
          posts' = posts]_vars
C32_ExhaustedReached ==
    \A p \in PostIds :
       (p \in DOMAIN posts /\ posts[p].created_at = 0)
          ~> (/\ p \in DOMAIN posts
              /\ posts[p].status = "failed"
              /\ posts[p].retry_count = posts[p].max_retries)
(* ---------------------------------------------------------------- C33 *)
\* C33: the publisher calls the external API only after the account, the
\* token and the media have been checked: a run that ends on one of these
\* checks takes the failure path without a publish, and a run on a post
\* without media never publishes.
C33_ChecksBeforePublish ==
    [][\A w \in Workers :
          (/\ workers[w].pc = "claimed"
           /\ workers'[w].pc = "idle"
           /\ lastOp'.op = "exec"
           /\ workers[w].post \in DOMAIN posts) =>
             /\ (\/ lastOp'.err \in {ErrAccount, ErrToken, ErrMedia}
                 \/ posts[workers[w].post].media_files = 0) =>
                   /\ lastOp'.result = "error"
                   /\ lastOp'.err \in {ErrAccount, ErrToken, ErrMedia}
                   /\ extCalls' = extCalls
                   /\ published' = published
                   /\ fails'[workers[w].post] = fails[workers[w].post] + 1
             /\ extCalls' # extCalls =>
                   /\ lastOp'.result = "success"
                   /\ posts[workers[w].post].media_files >= 1]_vars

\* a run on a post without media has just ended on the media check
C33_Witness ==
    /\ lastOp.op = "exec"
    /\ lastOp.result = "error"
    /\ lastOp.err = ErrMedia
    /\ lastOp.post \in DOMAIN posts
    /\ posts[lastOp.post].media_files = 0
    /\ extCalls[lastOp.post] = 0
    /\ fails[lastOp.post] >= 1
C35_PastUpdateRejected ==
    [][(/\ lastOp'.op = "update"
        /\ lastOp'.post \in DOMAIN posts
        /\ posts[lastOp'.post].status \in {"pending", "failed"}
        /\ lastOp'.arg # NoTime
        /\ lastOp'.arg <= now) =>
          /\ lastOp'.result = "400"
          /\ posts' = posts
          /\ tasks' = tasks
          /\ nextTask' = nextTask]_vars

\* an update to the present instant of a pending post that holds a handle
\* has just been refused
C35_Witness ==
    /\ lastOp.op = "update"
    /\ lastOp.result = "400"
    /\ lastOp.arg = now
    /\ lastOp.post \in DOMAIN posts
    /\ posts[lastOp.post].status = "pending"
    /\ posts[lastOp.post].celery_task_id # NoId
    /\ posts[lastOp.post].scheduled_for > now
    /\ \E t \in tasks : t.id = posts[lastOp.post].celery_task_id
(* ---------------------------------------------------------------- C36 *)
\* C36: when neither execute-now nor republish is ever called, a post is
\* not published before the scheduled_for its row holds at that moment;
\* in particular the message of an earlier schedule, left on the queue by
\* a revoke that did not reach it, does not publish the post early.
C36_NotBeforeSchedule ==
    [][(lastOp'.op = "exec" /\ lastOp'.result = "success") =>
          posts[lastOp'.post].scheduled_for <= now]_vars
(* ---------------------------------------------------------------- C37 *)
\* C37: every retry message sent by a failed run is due five minutes after
\* the failure, whatever the attempt; but when the failure is the API's
\* rate limit with a retry-after hint, the message is due after that hint.
C37_RetryDelay ==
    [][\A p \in DOMAIN posts :
          FailedRun(p) =>
             \A t \in tasks' \ tasks :
                t.eta = now + (IF lastOp'.err = ErrRate
                               THEN RetryAfterHint
                               ELSE RetryCountdown)]_vars
====
